---- MODULE Spec2Model ----
(***************************************************************************)
(* Scaling of a tagged fleet of Linode instances behind a VLAN and a DNS   *)
(* zone: LinodeClient::scale_up_one, LinodeClient::scale_down_one and the  *)
(* batch loop of main, with the provider (instances, configurations, DNS   *)
(* records) as shared state.                                               *)
(*                                                                         *)
(* Strings that the code formats, splits or parses (record names, tags,    *)
(* region codes, VLAN addresses) are sequences of one-character strings.   *)
(* Strings that are only compared (public addresses, record targets,       *)
(* record types, region keys) are plain strings.                           *)
(***************************************************************************)
EXTENDS Integers, Sequences, FiniteSets, TLC

\* ------------------------------------------------------------- bounds
\* Scale units started over a whole behaviour.
MaxUnits == 2
\* Units one command may ask for (--n).
MaxN == 2
\* Provider calls over a whole behaviour that do not answer with success.
MaxFaults == 1

\* ---------------------------------------------------------- constants
U8Max == 255
I32Max == 2147483647
\* ttl_sec of a record made by create_a_record.
TtlSec == 3600

A_RECORD == "A"
LOCALHOST == "127.0.0.1"

\* Option<T>: None, or Some(x).
None == <<>>
Some(x) == <<x>>
IsSome(o) == o # <<>>
Unwrap(o) == o[1]

\* ------------------------------------------------------------ strings
Digits == <<"0", "1", "2", "3", "4", "5", "6", "7", "8", "9">>
IsDigit(c) == \E i \in 1..10 : Digits[i] = c
DigitVal(c) == (CHOOSE i \in 1..10 : Digits[i] = c) - 1

RECURSIVE DigitsValue(_)
DigitsValue(s) ==
    IF s = <<>> THEN 0
    ELSE 10 * DigitsValue(SubSeq(s, 1, Len(s) - 1)) + DigitVal(s[Len(s)])

\* Display of an integer ({} in format!).
RECURSIVE ToDec(_)
ToDec(n) ==
    IF n < 0 THEN <<"-">> \o ToDec(-n)
    ELSE IF n < 10 THEN <<Digits[n + 1]>>
    ELSE ToDec(n \div 10) \o <<Digits[(n % 10) + 1]>>

\* str::split(sep): the parts between separators, empty parts kept.
RECURSIVE Split(_, _)
Split(s, sep) ==
    IF \A i \in 1..Len(s) : s[i] # sep THEN <<s>>
    ELSE LET k == CHOOSE i \in 1..Len(s) :
                      s[i] = sep /\ \A j \in 1..(i - 1) : s[j] # sep
         IN  <<SubSeq(s, 1, k - 1)>> \o Split(SubSeq(s, k + 1, Len(s)), sep)

starts_with(s, p) == Len(s) >= Len(p) /\ SubSeq(s, 1, Len(p)) = p

\* str::parse::<u8>(): an optional +, then digits, value at most 255.
ParseU8(s) ==
    LET body == IF s # <<>> /\ s[1] = "+" THEN Tail(s) ELSE s
    IN  IF body = <<>> \/ \E i \in 1..Len(body) : ~IsDigit(body[i]) THEN None
        ELSE IF DigitsValue(body) > U8Max THEN None
        ELSE Some(DigitsValue(body))

\* str::parse::<i32>(): an optional + or -, then digits, value in the i32 range.
ParseI32(s) ==
    LET neg  == s # <<>> /\ s[1] = "-"
        body == IF s # <<>> /\ s[1] \in {"+", "-"} THEN Tail(s) ELSE s
        v    == IF neg THEN -DigitsValue(body) ELSE DigitsValue(body)
    IN  IF body = <<>> \/ \E i \in 1..Len(body) : ~IsDigit(body[i]) THEN None
        ELSE IF v > I32Max \/ v < -I32Max - 1 THEN None
        ELSE Some(v)

\* Mutant of extract_number: the first part of the name, not the last.
extract_number_FirstPart(input) ==
    LET parts == Split(input, "-")
    IN  ParseI32(parts[1])

extract_number(input) ==
    LET parts == Split(input, "-")
    IN  ParseI32(parts[Len(parts)])

\* format!("{}-{}", a, b)
Dash(a, b) == a \o <<"-">> \o b

\* format!("10.0.0.{}/24", cidr)
VlanAddress(cidr) ==
    <<"1", "0", ".", "0", ".", "0", ".">> \o ToDec(cidr) \o <<"/", "2", "4">>

\* ------------------------------------------------------------ regions
REGIONS_get(key) ==
    CASE
       key = "eu-west" -> Some([code |-> <<"u", "k", "-", "l", "h", "r">>, region |-> "eu-west", is_legacy |-> TRUE])
    [] key = "se-sto" -> Some([code |-> <<"s", "e", "-", "s", "t", "o">>, region |-> "se-sto", is_legacy |-> FALSE])
    [] key = "us-iad" -> Some([code |-> <<"u", "s", "-", "i", "a", "d">>, region |-> "us-iad", is_legacy |-> FALSE])
    [] key = "us-lax" -> Some([code |-> <<"u", "s", "-", "l", "a", "x">>, region |-> "us-lax", is_legacy |-> FALSE])
    [] key = "us-ord" -> Some([code |-> <<"u", "s", "-", "o", "r", "d">>, region |-> "us-ord", is_legacy |-> FALSE])
    [] key = "us-mia" -> Some([code |-> <<"u", "s", "-", "m", "i", "a">>, region |-> "us-mia", is_legacy |-> FALSE])
    [] key = "us-sea" -> Some([code |-> <<"u", "s", "-", "s", "e", "a">>, region |-> "us-sea", is_legacy |-> FALSE])
    [] key = "us-southeast" -> Some([code |-> <<"u", "s", "-", "a", "t", "l">>, region |-> "us-southeast", is_legacy |-> TRUE])
    [] key = "us-central" -> Some([code |-> <<"u", "s", "-", "d", "f", "w">>, region |-> "us-central", is_legacy |-> TRUE])
    [] key = "us-east" -> Some([code |-> <<"u", "s", "-", "e", "w", "r">>, region |-> "us-east", is_legacy |-> TRUE])
    [] key = "ca-central" -> Some([code |-> <<"c", "a", "-", "y", "y", "z">>, region |-> "ca-central", is_legacy |-> TRUE])
    [] key = "br-gru" -> Some([code |-> <<"b", "r", "-", "g", "r", "u">>, region |-> "br-gru", is_legacy |-> FALSE])
    [] key = "jp-osa" -> Some([code |-> <<"j", "p", "-", "o", "s", "a">>, region |-> "jp-osa", is_legacy |-> FALSE])
    [] key = "fr-par" -> Some([code |-> <<"f", "r", "-", "p", "a", "r">>, region |-> "fr-par", is_legacy |-> FALSE])
    [] key = "it-mil" -> Some([code |-> <<"i", "t", "-", "m", "i", "l">>, region |-> "it-mil", is_legacy |-> FALSE])
    [] key = "ap-southeast" -> Some([code |-> <<"a", "u", "-", "s", "y", "d">>, region |-> "ap-southeast", is_legacy |-> TRUE])
    [] OTHER -> None

\* --------------------------------------------------------------- data
\* The tag of the group under scaling (--tag) and another VLAN label.
TagWeb == <<"w", "e", "b">>
TagDb == <<"d", "b">>
CodeUsIad == <<"u", "s", "-", "i", "a", "d">>
CodeUkLhr == <<"u", "k", "-", "l", "h", "r">>

\* Interface (lib.rs 143-148)
PublicInterface == [purpose |-> "public", ipam_address |-> None, label |-> None]
VlanInterface(label, ipam) ==
    [purpose |-> "vlan", ipam_address |-> Some(ipam), label |-> Some(label)]

\* Public addresses the provider hands to new instances, in order.
AddressPool ==
    <<"203.0.113.1", "203.0.113.2", "203.0.113.3", "203.0.113.4",
      "203.0.113.5", "203.0.113.6", "203.0.113.7", "203.0.113.8">>

Max(S) == CHOOSE x \in S : \A y \in S : y <= x
Min(S) == CHOOSE x \in S : \A y \in S : x <= y
Range(s) == {s[i] : i \in 1..Len(s)}

RECURSIVE Flatten(_)
Flatten(ss) == IF ss = <<>> THEN <<>> ELSE Head(ss) \o Flatten(Tail(ss))

\* ------------------------------------------------------ pure functions
\* Vec::contains
contains(v, x) == \E i \in 1..Len(v) : v[i] = x

\* Mutant of get_instances_by_tag: an instance is kept when it carries any of
\* the tags (any in place of all).
get_instances_by_tag_AnyTag(tags, listing) ==
    LET keep(instance) == \E j \in 1..Len(tags) : contains(instance.tags, tags[j])
    IN  SelectSeq(listing, keep)

\* get_instances_by_tag: the instances of the listing that carry every tag.
get_instances_by_tag(tags, listing) ==
    LET keep(instance) == \A j \in 1..Len(tags) : contains(instance.tags, tags[j])
    IN  SelectSeq(listing, keep)

\* The loop over the interfaces of one instance's configurations in
\* scale_up_one: acc.cidrs collects the parsed octets; acc.panic is set by
\* the index ip_parts[3] on an address of fewer than four parts.
RECURSIVE ScanInterfaces(_, _, _)
ScanInterfaces(interfaces, tag, acc) ==
    IF interfaces = <<>> \/ acc.panic THEN acc
    ELSE LET interface == Head(interfaces)
             hit      == /\ IsSome(interface.label)
                         /\ Unwrap(interface.label) = tag
                         /\ IsSome(interface.ipam_address)
             parts    == Split(Unwrap(interface.ipam_address), "/")
             ip_parts == Split(parts[1], ".")
             n        == ParseU8(ip_parts[4])
         IN  IF ~hit THEN ScanInterfaces(Tail(interfaces), tag, acc)
             ELSE IF Len(ip_parts) < 4 THEN [acc EXCEPT !.panic = TRUE]
             ELSE ScanInterfaces(Tail(interfaces), tag,
                      IF IsSome(n) THEN [acc EXCEPT !.cidrs = Append(@, Unwrap(n))]
                      ELSE acc)

ScanConfigs(configs, tag, acc) ==
    ScanInterfaces(Flatten([c \in 1..Len(configs) |-> configs[c].interfaces]), tag, acc)

\* Mutant of AllocateCidr: the largest octet itself, not one more.
AllocateCidr_NoIncrement(cidrs) ==
    IF cidrs = <<>> THEN {Some(1)} ELSE {Some(Max(Range(cidrs)))}

\* `max + 1` on u8 (lib.rs 565-569): past 255 the addition panics in a build
\* with overflow checks and wraps in one without. None stands for the panic.
AllocateCidr(cidrs) ==
    IF cidrs = <<>> THEN {Some(1)}
    ELSE IF Max(Range(cidrs)) + 1 <= U8Max THEN {Some(Max(Range(cidrs)) + 1)}
    ELSE {None, Some((Max(Range(cidrs)) + 1) % (U8Max + 1))}

\* Mutant of ScanRecords: the last free slot is claimed, not the first.
ScanRecords_ClaimsLast(records, prefix, seqs) ==
    LET matching(rec) == starts_with(rec.name, prefix) /\ rec.record_type = A_RECORD
        down == {i \in 1..Len(records) :
                    matching(records[i]) /\ records[i].target = LOCALHOST}
        numbered(rec) == matching(rec) /\ IsSome(extract_number(rec.name))
        picked == SelectSeq(records, numbered)
    IN  IF down # {} THEN [claim |-> Some(records[Max(down)].id), seqs |-> seqs]
        ELSE [claim |-> None,
              seqs |-> seqs \o [i \in 1..Len(picked) |->
                                   Unwrap(extract_number(picked[i].name))]]

\* The loop over the fetched records in scale_up_one (lib.rs 599-614): the
\* first free slot is claimed, otherwise the sequence numbers are collected.
RECURSIVE ScanRecords(_, _, _)
ScanRecords(records, prefix, seqs) ==
    IF records = <<>> THEN [claim |-> None, seqs |-> seqs]
    ELSE LET rec == Head(records)
             n   == extract_number(rec.name)
         IN  IF starts_with(rec.name, prefix) /\ rec.record_type = A_RECORD
             THEN IF rec.target = LOCALHOST
                  THEN [claim |-> Some(rec.id), seqs |-> seqs]
                  ELSE ScanRecords(Tail(records), prefix,
                           IF IsSome(n) THEN Append(seqs, Unwrap(n)) ELSE seqs)
             ELSE ScanRecords(Tail(records), prefix, seqs)

\* Mutant of NextSeq: the largest sequence number itself, not one more.
NextSeq_NoIncrement(seqs) ==
    IF seqs = <<>> THEN {Some(1)} ELSE {Some(Max(Range(seqs)))}

\* seqs.sort(); seqs.reverse(); seqs[0] + 1, or 1 (lib.rs 617-619); the i32
\* addition panics or wraps past i32::MAX. None stands for the panic.
NextSeq(seqs) ==
    IF seqs = <<>> THEN {Some(1)}
    ELSE IF Max(Range(seqs)) + 1 <= I32Max THEN {Some(Max(Range(seqs)) + 1)}
    ELSE {None, Some(-I32Max - 1)}

\* Mutant of a_records_get: the lookup ignores its key and answers with the
\* id inserted last.
a_records_get_AnyKey(records, target) ==
    IF records = <<>> THEN None ELSE Some(records[Len(records)].id)

\* a_records of scale_down_one (lib.rs 489-492): target -> id over every
\* record of the zone; a later record with the same target replaces an
\* earlier one.
a_records_get(records, target) ==
    LET at == {i \in 1..Len(records) : records[i].target = target}
    IN  IF at = {} THEN None ELSE Some(records[Max(at)].id)

\* Mutant of FirstMatch: instances are matched by label against record
\* names, which no record of the zone mirrors, so nothing matches.
FirstMatch_ByLabel(instances, records) == None

\* Mutant of FirstMatch: the loop has no break, so the last inventoried
\* instance that matches is the one handled.
FirstMatch_LastHit(instances, records) ==
    LET hits == {i \in 1..Len(instances) :
                    IsSome(a_records_get(records, instances[i].ipv4[1]))}
    IN  IF hits = {} THEN None ELSE Some(Max(hits))

\* The for loop of scale_down_one (lib.rs 494-505): the index of the first
\* inventoried instance whose first public address is a key of a_records.
FirstMatch(instances, records) ==
    LET hits == {i \in 1..Len(instances) :
                    IsSome(a_records_get(records, instances[i].ipv4[1]))}
    IN  IF hits = {} THEN None ELSE Some(Min(hits))

\* ----------------------------------------------------------- provider
\* PUT domains/<d>/records/<id>
PutRecordTarget(z, id, target) ==
    [i \in 1..Len(z) |-> IF z[i].id = id THEN [z[i] EXCEPT !.target = target] ELSE z[i]]

\* POST domains/<d>/records
PostRecord(z, id, name, target) ==
    Append(z, [id |-> id, record_type |-> A_RECORD, name |-> name,
               target |-> target, ttl_sec |-> TtlSec])

\* PUT linode/instances/<id>/configs/<config_id>
PutInterfaces(l, id, config_id, interfaces) ==
    LET put(configs) ==
            [c \in 1..Len(configs) |->
                IF configs[c].id = config_id
                THEN [configs[c] EXCEPT !.interfaces = interfaces]
                ELSE configs[c]]
    IN  [i \in 1..Len(l) |->
            IF l[i].id = id THEN [l[i] EXCEPT !.configs = put(l[i].configs)]
            ELSE l[i]]

\* DELETE linode/instances/<id>
DeleteInstance(l, id) ==
    LET keep(instance) == instance.id # id
    IN  SelectSeq(l, keep)

\* GET linode/instances/<id>/configs
ConfigsOf(l, id) ==
    LET at == {i \in 1..Len(l) : l[i].id = id}
    IN  IF at = {} THEN None ELSE Some(l[Min(at)].configs)

\* ------------------------------------------------------ initial worlds
Instance(id, tags, ip, configs) ==
    [id |-> id, tags |-> tags, ipv4 |-> <<ip>>, configs |-> configs]
Config(id, interfaces) == [id |-> id, interfaces |-> interfaces]
Record(id, type, name, target) ==
    [id |-> id, record_type |-> type, name |-> name, target |-> target,
     ttl_sec |-> TtlSec]

GroupTags == <<TagWeb, CodeUsIad>>
SlotName(n) == Dash(Dash(TagWeb, CodeUsIad), ToDec(n))

\* Nothing yet.
WorldEmpty == [linodes |-> <<>>, zone |-> <<>>]

\* One instance on 10.0.0.4 bound to slot 1; slot 2 is down.
WorldOne ==
    [linodes |-> <<Instance(1, GroupTags, "198.51.100.1",
                      <<Config(2, <<PublicInterface,
                                    VlanInterface(TagWeb, VlanAddress(4))>>)>>)>>,
     zone |-> <<Record(3, A_RECORD, SlotName(1), "198.51.100.1"),
                Record(4, A_RECORD, SlotName(2), LOCALHOST)>>]

\* Octets 3, 5 and 7 over two instances and three configurations, beside an
\* interface of another VLAN, one without an address and one whose last part
\* is no number; an instance of another region; slots 1 and 3 bound, beside
\* a TXT record and a record of another tag that point at the down address.
WorldMixed ==
    [linodes |->
        <<Instance(1, GroupTags, "198.51.100.1",
              <<Config(2, <<PublicInterface, VlanInterface(TagWeb, VlanAddress(3))>>),
                Config(3, <<VlanInterface(TagWeb, VlanAddress(5)),
                            VlanInterface(TagDb, VlanAddress(9)),
                            [purpose |-> "vlan", ipam_address |-> None,
                             label |-> Some(TagWeb)]>>)>>),
          Instance(4, <<TagWeb, CodeUkLhr>>, "198.51.100.4",
              <<Config(5, <<PublicInterface,
                            VlanInterface(TagWeb, VlanAddress(20))>>)>>),
          Instance(6, GroupTags, "198.51.100.6",
              <<Config(7, <<VlanInterface(TagWeb, VlanAddress(7)),
                            VlanInterface(TagWeb,
                                <<"1", "0", ".", "0", ".", "0", ".", "x", "/", "2", "4">>)>>)>>)>>,
     zone |-> <<Record(8, A_RECORD, SlotName(1), "198.51.100.1"),
                Record(9, "TXT", SlotName(8), LOCALHOST),
                Record(10, A_RECORD, Dash(Dash(<<"a", "p", "i">>, CodeUsIad), ToDec(6)),
                       LOCALHOST),
                Record(11, A_RECORD, SlotName(3), "198.51.100.6")>>]

\* The top of the octet range: one instance on 10.0.0.255, bound to slot 1.
WorldTop ==
    [linodes |-> <<Instance(1, GroupTags, "198.51.100.1",
                      <<Config(2, <<PublicInterface,
                                    VlanInterface(TagWeb, VlanAddress(U8Max))>>)>>)>>,
     zone |-> <<Record(3, A_RECORD, SlotName(1), "198.51.100.1")>>]

\* Two records of the same slot name, one bound and one down (what two
\* interleaved scale-ups followed by a scale-down leave behind).
WorldTwin ==
    [linodes |-> <<Instance(1, GroupTags, "198.51.100.1",
                      <<Config(2, <<PublicInterface,
                                    VlanInterface(TagWeb, VlanAddress(1))>>)>>)>>,
     zone |-> <<Record(3, A_RECORD, SlotName(1), "198.51.100.1"),
                Record(4, A_RECORD, SlotName(1), LOCALHOST)>>]

\* Slot 1 is down, and one instance is live without VLAN interface and
\* without record (what a scale-down and a scale-up that failed after its
\* Provision step leave behind).
WorldOrphan ==
    [linodes |-> <<Instance(1, GroupTags, "198.51.100.1",
                      <<Config(2, <<PublicInterface>>)>>)>>,
     zone |-> <<Record(3, A_RECORD, SlotName(1), LOCALHOST)>>]

\* One below the top of the octet range: one instance on 10.0.0.254, bound
\* to slot 1.
WorldEdge ==
    [linodes |-> <<Instance(1, GroupTags, "198.51.100.1",
                      <<Config(2, <<PublicInterface,
                                    VlanInterface(TagWeb, VlanAddress(U8Max - 1))>>)>>)>>,
     zone |-> <<Record(3, A_RECORD, SlotName(1), "198.51.100.1")>>]

\* Private addresses as the provider may report them: a last part above
\* 255 and an address without '/' on the first instance, an address of
\* three dot-separated parts on the second.
WorldMalformed ==
    [linodes |->
        <<Instance(1, GroupTags, "198.51.100.1",
              <<Config(2, <<VlanInterface(TagWeb,
                                <<"1", "0", ".", "0", ".", "0", ".", "3", "0", "0", "/", "2", "4">>),
                            VlanInterface(TagWeb,
                                <<"1", "0", ".", "0", ".", "0", ".", "6">>)>>)>>),
          Instance(3, GroupTags, "198.51.100.3",
              <<Config(4, <<VlanInterface(TagWeb,
                                <<"1", "0", ".", "0", ".", "0", "/", "2", "4">>)>>)>>)>>,
     zone |-> <<>>]

\* A zone and an account shared with others: the instance of the group, on
\* 10.0.0.2 and bound to slot 1, is also the target of a TXT record listed
\* after its slot; beside it, an instance whose tag differs in case only and
\* one that carries the two tags among others, in another order.
WorldShared ==
    [linodes |->
        <<Instance(1, <<<<"W", "e", "b">>, CodeUsIad>>, "198.51.100.1",
              <<Config(2, <<PublicInterface,
                            VlanInterface(TagWeb, VlanAddress(30))>>)>>),
          Instance(3, <<CodeUsIad, TagDb, TagWeb>>, "198.51.100.3",
              <<Config(4, <<PublicInterface,
                            VlanInterface(TagWeb, VlanAddress(2))>>)>>)>>,
     zone |-> <<Record(5, A_RECORD, SlotName(1), "198.51.100.3"),
                Record(6, "TXT", <<"w", "w", "w">>, "198.51.100.3")>>]

\* No instance yet; the zone has a down A record of a neighbouring group
\* whose name starts with the prefix of this one (web-us-iad2-7).
WorldPrefix ==
    [linodes |-> <<>>,
     zone |-> <<Record(1, A_RECORD,
                       Dash(Dash(TagWeb, CodeUsIad \o <<"2">>), ToDec(7)), LOCALHOST)>>]

Worlds ==
    {WorldEmpty, WorldOrphan, WorldOne, WorldMixed, WorldTop, WorldTwin,
     WorldEdge, WorldMalformed, WorldShared, WorldPrefix}

\* The first id no instance, configuration or record of world w has.
FreshId(w) ==
    1 + Max({0} \cup {w.linodes[i].id : i \in 1..Len(w.linodes)}
                \cup {w.zone[i].id : i \in 1..Len(w.zone)}
                \cup UNION {{w.linodes[i].configs[c].id :
                                c \in 1..Len(w.linodes[i].configs)} :
                            i \in 1..Len(w.linodes)})

\* Values of --region tried, and the processes (CLI invocations).
RegionArgs == <<"us-iad", "nowhere">>
Procs == {1, 2}

\* --------------------------------------------------------------- state
VARIABLES
    linodes,    \* provider: the instances, in listing order
    zone,       \* provider: the records of the domain, in listing order
    nextId,     \* provider: the next fresh id
    nextIp,     \* provider: index into AddressPool of the next fresh address
    pc,         \* per process: where it stands
    args,       \* per process: the parsed command line
    k,          \* per process: units of the batch that returned Ok
    begun,      \* per process: units of the batch that were started
    loc,        \* per process: the locals of the running unit
    calls,      \* per process: the provider calls of the running unit
    exit,       \* per process: exit status and diagnostic of the command
    kept,       \* per process: ids of instances created (up) or destroyed
                \* (down) by the units of the batch that returned Ok
    units,      \* units started so far
    faults,     \* provider calls that did not answer with success so far
    start,      \* per process: provider state when the running unit began
    lastUnit,   \* summary of the unit that ended last
    prevUnit,   \* summary of the unit that ended before it
    init0       \* the initial world

provider == <<linodes, zone, nextId, nextIp>>
history == <<lastUnit, prevUnit, init0>>
vars == <<linodes, zone, nextId, nextIp, pc, args, k, begun, loc, calls, exit,
          kept, units, faults, start, lastUnit, prevUnit, init0>>

NoArgs == [action |-> "none", region |-> "", tag |-> <<>>, n |-> 0]
NoLoc ==
    [instances |-> <<>>, i |-> 1, cidrs |-> <<>>, instance |-> None,
     config_id |-> 0, records |-> <<>>, hit |-> None]
NoExit == [status |-> -1, stderr |-> "", stdout |-> ""]
NoUnit ==
    [proc |-> 0, kind |-> "none", result |-> "none", calls |-> <<>>,
     pre |-> WorldEmpty, post |-> WorldEmpty, instance |-> None]

\* The state before any command, over one of the worlds of W, the provider
\* having failed f calls already.
InitIn(W, f) ==
    /\ \E w \in W :
          /\ linodes = w.linodes
          /\ zone = w.zone
          /\ init0 = w
          /\ nextId = FreshId(w)
    /\ nextIp = 1
    /\ pc = [p \in Procs |-> "idle"]
    /\ args = [p \in Procs |-> NoArgs]
    /\ k = [p \in Procs |-> 0]
    /\ begun = [p \in Procs |-> 0]
    /\ loc = [p \in Procs |-> NoLoc]
    /\ calls = [p \in Procs |-> <<>>]
    /\ exit = [p \in Procs |-> NoExit]
    /\ kept = [p \in Procs |-> <<>>]
    /\ units = 0
    /\ faults = f
    /\ start = [p \in Procs |-> WorldEmpty]
    /\ lastUnit = NoUnit
    /\ prevUnit = NoUnit

Init == InitIn(Worlds, 0)

\* ---------------------------------------------------- provider answers
\* A call is answered with success ("ok"), not at all ("neterr": send()
\* returns Err), or with an error status and an error body ("httperr":
\* send() returns Ok, and only a call that parses the body notices).
Answers == IF faults < MaxFaults THEN {"ok", "neterr", "httperr"} ELSE {"ok"}
Fault(o) == IF o = "ok" THEN faults ELSE faults + 1

\* `.send().await?` alone: update_record_target, create_a_record,
\* set_interfaces, destroy_instance, reboot_instance.
SendFails(o) == o = "neterr"
\* `.send().await?` then `.json::<T>().await?`: fetch_records,
\* fetch_instances, get_instance_configurations, create_linode_instance.
JsonFails(o) == o # "ok"

Call(op, id, name, target, o) ==
    [op |-> op, id |-> id, name |-> name, target |-> target, out |-> o]

\* Addresses the provider may give a new instance: the next fresh one, or
\* one that a record still points at and no live instance holds.
NewAddresses ==
    {AddressPool[nextIp]} \cup
    {zone[i].target : i \in {j \in 1..Len(zone) :
        /\ zone[j].target # LOCALHOST
        /\ \A m \in 1..Len(linodes) : linodes[m].ipv4[1] # zone[j].target}}

\* ------------------------------------------------------------- main
region_info(p) == Unwrap(REGIONS_get(args[p].region))
\* Mutant of GroupOf: the region code is left out of the tags.
GroupOf_TagOnly(p) == <<args[p].tag>>

GroupOf(p) == <<args[p].tag, region_info(p).code>>
prefix(p) == Dash(args[p].tag, region_info(p).code)

\* Mutant of OnUnitResult: the error of a unit is dropped and the loop goes on.
OnUnitResult_Ignored(res) == "main"

\* The `?` after scale_up_one / scale_down_one in the loops of main.
OnUnitResult(res) == IF res = "ok" THEN "main" ELSE "exit"

ExitOf(p, res) ==
    IF res = "err"
    THEN [status |-> 1, stdout |-> "",
          stderr |-> IF args[p].action = "up" THEN "Failed to scale up"
                     ELSE "Failed to scale down"]
    ELSE [status |-> 101, stdout |-> "", stderr |-> "panicked"]

\* The running unit of p returns `res` ("ok", "err", "panic") with call
\* log c2, leaving the provider in <<l2, z2>>.
Returns(p, res, l2, z2, c2, id) ==
    LET to == IF res = "panic" THEN "exit" ELSE OnUnitResult(res)
    IN  /\ pc' = [pc EXCEPT ![p] = to]
        /\ calls' = [calls EXCEPT ![p] = <<>>]
        /\ loc' = [loc EXCEPT ![p] = NoLoc]
        /\ k' = [k EXCEPT ![p] = IF res = "ok" THEN @ + 1 ELSE @]
        /\ exit' = [exit EXCEPT ![p] = IF to = "exit" THEN ExitOf(p, res) ELSE @]
        /\ kept' = [kept EXCEPT ![p] =
                       IF res = "ok" /\ IsSome(id) THEN Append(@, Unwrap(id)) ELSE @]
        /\ prevUnit' = lastUnit
        /\ lastUnit' = [proc |-> p, kind |-> args[p].action, result |-> res,
                        calls |-> c2, pre |-> start[p],
                        post |-> [linodes |-> l2, zone |-> z2],
                        instance |-> loc[p].instance]
        /\ UNCHANGED <<args, begun, units, start, init0>>

\* The running unit of p goes on to step `to`.
GoesOn(p, to, c2) ==
    /\ pc' = [pc EXCEPT ![p] = to]
    /\ calls' = [calls EXCEPT ![p] = c2]
    /\ UNCHANGED <<args, k, begun, exit, kept, units, start, history>>

\* Command::from_args and the match on args.action.
StartWith(p, actions, regions) ==
    /\ pc[p] \in {"idle", "exit"}
    /\ \E a \in 1..Len(actions), r \in 1..Len(regions), n \in 0..MaxN :
          /\ n <= MaxUnits - units
          /\ args' = [args EXCEPT ![p] =
                        [action |-> actions[a], region |-> regions[r],
                         tag |-> TagWeb, n |-> n]]
    /\ pc' = [pc EXCEPT ![p] = "main"]
    /\ k' = [k EXCEPT ![p] = 0]
    /\ begun' = [begun EXCEPT ![p] = 0]
    /\ exit' = [exit EXCEPT ![p] = NoExit]
    /\ kept' = [kept EXCEPT ![p] = <<>>]
    /\ UNCHANGED <<provider, loc, calls, units, faults, start, history>>

Start(p) == StartWith(p, <<"up", "down">>, RegionArgs)
\* One `scale up` on the region of the group.
StartUp(p) == pc[p] = "idle" /\ StartWith(p, <<"up">>, <<"us-iad">>)

\* REGIONS.get(region) is None: eprintln!, then the Ok(()) that ends main.
MainBadRegion(p) ==
    /\ pc[p] = "main"
    /\ ~IsSome(REGIONS_get(args[p].region))
    /\ pc' = [pc EXCEPT ![p] = "exit"]
    /\ exit' = [exit EXCEPT ![p] =
                  [status |-> 0, stdout |-> "", stderr |-> "Region code not found"]]
    /\ UNCHANGED <<provider, args, k, begun, loc, calls, kept, units, faults,
                   start, history>>

\* for _ in 0..n: the next unit begins.
MainBeginUnit(p) ==
    /\ pc[p] = "main"
    /\ IsSome(REGIONS_get(args[p].region))
    /\ k[p] < args[p].n
    /\ units < MaxUnits
    /\ pc' = [pc EXCEPT ![p] = IF args[p].action = "up" THEN "Inventory"
                               ELSE "DownInventory"]
    /\ begun' = [begun EXCEPT ![p] = @ + 1]
    /\ units' = units + 1
    /\ loc' = [loc EXCEPT ![p] = NoLoc]
    /\ calls' = [calls EXCEPT ![p] = <<>>]
    /\ start' = [start EXCEPT ![p] = [linodes |-> linodes, zone |-> zone]]
    /\ UNCHANGED <<provider, args, k, exit, kept, faults, history>>

\* The loop is over: println!, then Ok(()).
MainDone(p) ==
    /\ pc[p] = "main"
    /\ IsSome(REGIONS_get(args[p].region))
    /\ k[p] >= args[p].n
    /\ pc' = [pc EXCEPT ![p] = "exit"]
    /\ exit' = [exit EXCEPT ![p] =
                  [status |-> 0, stderr |-> "",
                   stdout |-> IF args[p].action = "up" THEN "Scaled up"
                              ELSE "Scaled down"]]
    /\ UNCHANGED <<provider, args, k, begun, loc, calls, kept, units, faults,
                   start, history>>

\* ------------------------------------------------------- scale_up_one
\* Mutant of AfterScan: the loop over the inventory ends after its first turn.
AfterScan_Once(i, instances) ==
    IF i <= Len(instances) /\ i <= 1 THEN "AddressCompute" ELSE "Provision"

AfterScan(i, instances) == IF i <= Len(instances) THEN "AddressCompute" ELSE "Provision"

\* get_instances_by_tag(vec![tag, region.code])
Inventory(p) ==
    /\ pc[p] = "Inventory"
    /\ \E o \in Answers :
          LET c2 == Append(calls[p], Call("fetch_instances", 0, <<>>, "", o))
              found == get_instances_by_tag(GroupOf(p), linodes)
          IN  /\ faults' = Fault(o)
              /\ IF JsonFails(o)
                 THEN /\ Returns(p, "err", linodes, zone, c2, None)
                 ELSE /\ loc' = [loc EXCEPT ![p].instances = found]
                      /\ GoesOn(p, AfterScan(1, found), c2)
    /\ UNCHANGED provider

\* One turn of `for instance in instances`: get_instance_configurations and
\* the scan of its interfaces.
AddressCompute(p) ==
    /\ pc[p] = "AddressCompute"
    /\ \E o \in Answers :
          LET instance == loc[p].instances[loc[p].i]
              c2 == Append(calls[p],
                        Call("get_instance_configurations", instance.id, <<>>, "", o))
              configs == ConfigsOf(linodes, instance.id)
              acc == ScanConfigs(Unwrap(configs), args[p].tag,
                         [panic |-> FALSE, cidrs |-> loc[p].cidrs])
          IN  /\ faults' = Fault(o)
              /\ IF JsonFails(o) \/ ~IsSome(configs)
                 THEN /\ Returns(p, "err", linodes, zone, c2, None)
                 ELSE IF acc.panic
                 THEN /\ Returns(p, "panic", linodes, zone, c2, None)
                 ELSE /\ loc' = [loc EXCEPT ![p].cidrs = acc.cidrs, ![p].i = @ + 1]
                      /\ GoesOn(p, AfterScan(loc[p].i + 1, loc[p].instances), c2)
    /\ UNCHANGED provider

\* create_linode_instance with tags [tag, region.code]
Provision(p) ==
    /\ pc[p] = "Provision"
    /\ \E o \in Answers :
          LET c2 == Append(calls[p], Call("create_linode_instance", 0, <<>>, "", o))
          IN  /\ faults' = Fault(o)
              /\ IF JsonFails(o)
                 THEN /\ UNCHANGED provider
                      /\ Returns(p, "err", linodes, zone, c2, None)
                 ELSE \E ip \in NewAddresses :
                      LET instance ==
                              [id |-> nextId, tags |-> GroupOf(p), ipv4 |-> <<ip>>,
                               configs |-> <<Config(nextId + 1, <<PublicInterface>>)>>]
                      IN  /\ linodes' = Append(linodes, instance)
                          /\ nextId' = nextId + 2
                          /\ nextIp' = nextIp + 1
                          /\ zone' = zone
                          /\ loc' = [loc EXCEPT ![p].instance = Some(instance)]
                          /\ GoesOn(p, "AwaitConfig", c2)

\* Mutant of first_config_id: no configuration gives the id 0 (first() with a
\* default in place of the index).
first_config_id_OrZero(configs) ==
    IF configs = <<>> THEN Some(0) ELSE Some(configs[1].id)

\* configs[0].id (lib.rs 563): the index panics on an empty list. None
\* stands for the panic.
first_config_id(configs) ==
    IF configs = <<>> THEN None ELSE Some(configs[1].id)

\* get_instance_configurations(instance.id), then configs[0].id
AwaitConfig(p) ==
    /\ pc[p] = "AwaitConfig"
    /\ \E o \in Answers \cup (IF faults < MaxFaults THEN {"noconfigs"} ELSE {}) :
          LET instance == Unwrap(loc[p].instance)
              c2 == Append(calls[p],
                        Call("get_instance_configurations", instance.id, <<>>, "", o))
              found == ConfigsOf(linodes, instance.id)
              configs == IF o = "noconfigs" THEN <<>> ELSE Unwrap(found)
          IN  /\ faults' = Fault(o)
              /\ IF o \in {"neterr", "httperr"} \/ ~IsSome(found)
                 THEN /\ Returns(p, "err", linodes, zone, c2, None)
                 ELSE IF ~IsSome(first_config_id(configs))
                 THEN /\ Returns(p, "panic", linodes, zone, c2, None)
                 ELSE /\ loc' = [loc EXCEPT ![p].config_id =
                                    Unwrap(first_config_id(configs))]
                      /\ GoesOn(p, "NetworkAttach", c2)
    /\ UNCHANGED provider

\* cidr = max + 1 or 1, then set_interfaces with the public and the VLAN
\* interface.
NetworkAttach(p) ==
    /\ pc[p] = "NetworkAttach"
    /\ \E cidr \in AllocateCidr(loc[p].cidrs) :
          IF ~IsSome(cidr)
          THEN /\ faults' = faults
               /\ UNCHANGED provider
               /\ Returns(p, "panic", linodes, zone, calls[p], None)
          ELSE \E o \in Answers :
               LET instance == Unwrap(loc[p].instance)
                   ipam == VlanAddress(Unwrap(cidr))
                   new_interfaces == <<PublicInterface,
                                       VlanInterface(args[p].tag, ipam)>>
                   c2 == Append(calls[p],
                             Call("set_interfaces", instance.id, ipam, "", o))
                   l2 == IF o = "ok"
                         THEN PutInterfaces(linodes, instance.id, loc[p].config_id,
                                            new_interfaces)
                         ELSE linodes
               IN  /\ faults' = Fault(o)
                   /\ linodes' = l2
                   /\ UNCHANGED <<zone, nextId, nextIp>>
                   /\ IF SendFails(o)
                      THEN Returns(p, "err", l2, zone, c2, None)
                      ELSE loc' = loc /\ GoesOn(p, "Reboot", c2)

\* reboot_instance(instance.id)
Reboot(p) ==
    /\ pc[p] = "Reboot"
    /\ \E o \in Answers :
          LET instance == Unwrap(loc[p].instance)
              c2 == Append(calls[p], Call("reboot_instance", instance.id, <<>>, "", o))
          IN  /\ faults' = Fault(o)
              /\ IF SendFails(o)
                 THEN Returns(p, "err", linodes, zone, c2, None)
                 ELSE loc' = loc /\ GoesOn(p, "DnsFetch", c2)
    /\ UNCHANGED provider

\* fetch_records(domain) of scale_up_one
DnsFetch(p) ==
    /\ pc[p] = "DnsFetch"
    /\ \E o \in Answers :
          LET c2 == Append(calls[p], Call("fetch_records", 0, <<>>, "", o))
          IN  /\ faults' = Fault(o)
              /\ IF JsonFails(o)
                 THEN /\ Returns(p, "err", linodes, zone, c2, None)
                 ELSE /\ loc' = [loc EXCEPT ![p].records = zone]
                      /\ GoesOn(p, "DnsBind", c2)
    /\ UNCHANGED provider

\* The scan of the records, then update_record_target on the free slot
\* found or create_a_record on the next sequence number.
DnsBind(p) ==
    /\ pc[p] = "DnsBind"
    /\ LET instance == Unwrap(loc[p].instance)
           scan == ScanRecords(loc[p].records, prefix(p), <<>>)
       IN  IF IsSome(scan.claim)
           THEN \E o \in Answers :
                LET c2 == Append(calls[p],
                              Call("update_record_target", Unwrap(scan.claim), <<>>,
                                   instance.ipv4[1], o))
                    z2 == IF o = "ok"
                          THEN PutRecordTarget(zone, Unwrap(scan.claim), instance.ipv4[1])
                          ELSE zone
                IN  /\ faults' = Fault(o)
                    /\ zone' = z2
                    /\ UNCHANGED <<linodes, nextId, nextIp>>
                    /\ Returns(p, IF SendFails(o) THEN "err" ELSE "ok", linodes, z2,
                               c2, Some(instance.id))
           ELSE \E n \in NextSeq(scan.seqs) :
                IF ~IsSome(n)
                THEN /\ faults' = faults
                     /\ UNCHANGED provider
                     /\ Returns(p, "panic", linodes, zone, calls[p], None)
                ELSE \E o \in Answers :
                     LET name == Dash(prefix(p), ToDec(Unwrap(n)))
                         c2 == Append(calls[p],
                                   Call("create_a_record", 0, name, instance.ipv4[1], o))
                         z2 == IF o = "ok"
                               THEN PostRecord(zone, nextId, name, instance.ipv4[1])
                               ELSE zone
                     IN  /\ faults' = Fault(o)
                         /\ zone' = z2
                         /\ nextId' = IF o = "ok" THEN nextId + 1 ELSE nextId
                         /\ UNCHANGED <<linodes, nextIp>>
                         /\ Returns(p, IF SendFails(o) THEN "err" ELSE "ok", linodes,
                                    z2, c2, Some(instance.id))

\* ----------------------------------------------------- scale_down_one
\* get_instances_by_tag(vec![tag, region.code])
DownInventory(p) ==
    /\ pc[p] = "DownInventory"
    /\ \E o \in Answers :
          LET c2 == Append(calls[p], Call("fetch_instances", 0, <<>>, "", o))
          IN  /\ faults' = Fault(o)
              /\ IF JsonFails(o)
                 THEN /\ Returns(p, "err", linodes, zone, c2, None)
                 ELSE /\ loc' = [loc EXCEPT ![p].instances =
                                    get_instances_by_tag(GroupOf(p), linodes)]
                      /\ GoesOn(p, "DownRecords", c2)
    /\ UNCHANGED provider

\* fetch_records(domain) of scale_down_one
DownRecords(p) ==
    /\ pc[p] = "DownRecords"
    /\ \E o \in Answers :
          LET c2 == Append(calls[p], Call("fetch_records", 0, <<>>, "", o))
          IN  /\ faults' = Fault(o)
              /\ IF JsonFails(o)
                 THEN /\ Returns(p, "err", linodes, zone, c2, None)
                 ELSE /\ loc' = [loc EXCEPT ![p].records = zone]
                      /\ GoesOn(p, "RecordMatch", c2)
    /\ UNCHANGED provider

\* a_records and the for loop up to its first hit, or to its end.
RecordMatch(p) ==
    /\ pc[p] = "RecordMatch"
    /\ LET hit == FirstMatch(loc[p].instances, loc[p].records)
       IN  IF IsSome(hit)
           THEN /\ loc' = [loc EXCEPT ![p].hit = hit]
                /\ GoesOn(p, "DownUpdate", calls[p])
           ELSE /\ Returns(p, "ok", linodes, zone, calls[p], None)
    /\ faults' = faults
    /\ UNCHANGED provider

\* update_record_target(domain, *id, LOCALHOST)
DownUpdate(p) ==
    /\ pc[p] = "DownUpdate"
    /\ \E o \in Answers :
          LET instance == loc[p].instances[Unwrap(loc[p].hit)]
              id == Unwrap(a_records_get(loc[p].records, instance.ipv4[1]))
              c2 == Append(calls[p], Call("update_record_target", id, <<>>, LOCALHOST, o))
              z2 == IF o = "ok" THEN PutRecordTarget(zone, id, LOCALHOST) ELSE zone
          IN  /\ faults' = Fault(o)
              /\ zone' = z2
              /\ UNCHANGED <<linodes, nextId, nextIp>>
              /\ IF SendFails(o)
                 THEN Returns(p, "err", linodes, z2, c2, None)
                 ELSE loc' = loc /\ GoesOn(p, "DownDestroy", c2)

\* destroy_instance(instance.id), then break
DownDestroy(p) ==
    /\ pc[p] = "DownDestroy"
    /\ \E o \in Answers :
          LET instance == loc[p].instances[Unwrap(loc[p].hit)]
              c2 == Append(calls[p], Call("destroy_instance", instance.id, <<>>, "", o))
              l2 == IF o = "ok" THEN DeleteInstance(linodes, instance.id) ELSE linodes
          IN  /\ faults' = Fault(o)
              /\ linodes' = l2
              /\ UNCHANGED <<zone, nextId, nextIp>>
              /\ Returns(p, IF SendFails(o) THEN "err" ELSE "ok", l2, zone, c2,
                         IF o = "ok" THEN Some(instance.id) ELSE None)

\* ------------------------------------------------------ specification
Step(p) ==
    \/ Start(p)
    \/ MainBadRegion(p)
    \/ MainBeginUnit(p)
    \/ MainDone(p)
    \/ Inventory(p)
    \/ AddressCompute(p)
    \/ Provision(p)
    \/ AwaitConfig(p)
    \/ NetworkAttach(p)
    \/ Reboot(p)
    \/ DnsFetch(p)
    \/ DnsBind(p)
    \/ DownInventory(p)
    \/ DownRecords(p)
    \/ RecordMatch(p)
    \/ DownUpdate(p)
    \/ DownDestroy(p)

\* Sequential execution: one process, one unit after another.
Next == Step(1)
Spec == Init /\ [][Next]_vars

\* Two invocations of `scale up` on the same tag and region at once: their
\* steps interleave, and the provider answers every call with success.
UpStep(p) ==
    \/ StartUp(p)
    \/ MainBeginUnit(p)
    \/ MainDone(p)
    \/ Inventory(p)
    \/ AddressCompute(p)
    \/ Provision(p)
    \/ AwaitConfig(p)
    \/ NetworkAttach(p)
    \/ Reboot(p)
    \/ DnsFetch(p)
    \/ DnsBind(p)

ConcurrentWorlds == {WorldEmpty, WorldOne}
NextConcurrent == \E p \in Procs : UpStep(p)
SpecConcurrent == InitIn(ConcurrentWorlds, MaxFaults) /\ [][NextConcurrent]_vars

\* ------------------------------------------------------------- claims
Last(s) == s[Len(s)]
Running(p) == pc[p] \notin {"idle", "main", "exit"}
\* The call log of the unit p runs, or of the unit it has just ended.
LogAfter(p) == IF pc'[p] \in {"main", "exit"} THEN lastUnit'.calls ELSE calls'[p]
Clean(unit) == \A i \in 1..Len(unit.calls) : unit.calls[i].out = "ok"
InventoryOf(w) == get_instances_by_tag(GroupTags, w.linodes)
Distinct(s) == \A i, j \in 1..Len(s) : i # j => s[i] # s[j]

\* The private addresses of the interfaces labelled `tag` of an instance.
TaggedAddresses(instance, tag) ==
    LET interfaces == Flatten([c \in 1..Len(instance.configs) |->
                                  instance.configs[c].interfaces])
        tagged(interface) == /\ interface.label = Some(tag)
                             /\ IsSome(interface.ipam_address)
        picked == SelectSeq(interfaces, tagged)
    IN  [i \in 1..Len(picked) |-> Unwrap(picked[i].ipam_address)]
GroupAddresses(l) ==
    LET inventory == get_instances_by_tag(GroupTags, l)
    IN  Flatten([i \in 1..Len(inventory) |-> TaggedAddresses(inventory[i], TagWeb)])

\* C1: under sequential execution, from a world whose VLAN addresses are
\* pairwise distinct, the VLAN addresses 10.0.0.<octet>/24 attached to the
\* live instances of the group stay pairwise distinct after any sequence of
\* scale units.
C1_VlanAddressesDistinct ==
    Distinct(GroupAddresses(init0.linodes)) => Distinct(GroupAddresses(linodes))

\* The sequence number of a slot name <tag>-<region-code>-<n>, if it is one.
SlotNumber(name) ==
    LET head == Dash(TagWeb, CodeUsIad) \o <<"-">>
        rest == SubSeq(name, Len(head) + 1, Len(name))
    IN  IF /\ starts_with(name, head)
           /\ rest # <<>>
           /\ \A i \in 1..Len(rest) : IsDigit(rest[i])
        THEN Some(DigitsValue(rest)) ELSE None
SlotNumbers(z, boundOnly) ==
    LET slot(rec) == /\ rec.record_type = A_RECORD
                     /\ IsSome(SlotNumber(rec.name))
                     /\ (boundOnly => rec.target # LOCALHOST)
        picked == SelectSeq(z, slot)
    IN  [i \in 1..Len(picked) |-> Unwrap(SlotNumber(picked[i].name))]

\* C2 as stated: the sequence numbers of the bound slot records of the
\* group stay pairwise distinct, provided the bound ones were pairwise
\* distinct initially.
C2_BoundSlotsDistinct_AsStated ==
    Distinct(SlotNumbers(init0.zone, TRUE)) => Distinct(SlotNumbers(zone, TRUE))

\* C2 as amended: the sequence numbers of the bound slot records of the
\* group stay pairwise distinct, provided the sequence numbers of all its
\* slot records, bound or down, were pairwise distinct initially.
C2_BoundSlotsDistinct ==
    Distinct(SlotNumbers(init0.zone, FALSE)) => Distinct(SlotNumbers(zone, TRUE))

C2_Witness ==
    /\ Distinct(SlotNumbers(init0.zone, FALSE))
    /\ lastUnit.kind = "up" /\ lastUnit.result = "ok" /\ Clean(lastUnit)
    /\ Len(SlotNumbers(zone, TRUE)) >= 2
    /\ Len(SlotNumbers(zone, TRUE)) > Len(SlotNumbers(lastUnit.pre.zone, TRUE))

\* The A records of the fetched list whose name starts with the prefix, and
\* those of them that are down.
MatchingAt(records, pre) ==
    {i \in 1..Len(records) :
        starts_with(records[i].name, pre) /\ records[i].record_type = A_RECORD}
DownAt(records, pre) ==
    {i \in MatchingAt(records, pre) : records[i].target = LOCALHOST}
LeavesDnsBind(p) == pc[p] = "DnsBind" /\ pc'[p] # "DnsBind"
NoCall(log, op) == \A i \in 1..Len(log) : log[i].op # op

\* C3: in DnsBind, if some A record with the prefix is down, the first such
\* record in the fetched order is claimed: the one call issued is an update
\* of that record to the new instance's first public address, which the
\* zone shows once answered, and no record is created.
C3_ClaimsFirstDown ==
    [][\A p \in Procs :
          (LeavesDnsBind(p) /\ DownAt(loc[p].records, prefix(p)) # {}) =>
              LET first == loc[p].records[Min(DownAt(loc[p].records, prefix(p)))]
                  ip    == Unwrap(loc[p].instance).ipv4[1]
                  call  == Last(LogAfter(p))
              IN  /\ Len(LogAfter(p)) = Len(calls[p]) + 1
                  /\ call.op = "update_record_target"
                  /\ call.id = first.id
                  /\ call.target = ip
                  /\ NoCall(LogAfter(p), "create_a_record")
                  /\ Len(zone') = Len(zone)
                  /\ call.out = "ok" =>
                        \A i \in 1..Len(zone) :
                            zone'[i] = IF zone[i].id = first.id
                                       THEN [zone[i] EXCEPT !.target = ip]
                                       ELSE zone[i]]_vars

\* An update claimed a down record that was not the only down record.
C3_Witness ==
    /\ lastUnit.kind = "up" /\ lastUnit.result = "ok" /\ Clean(lastUnit)
    /\ Last(lastUnit.calls).op = "update_record_target"
    /\ Cardinality(DownAt(lastUnit.pre.zone, Dash(TagWeb, CodeUsIad))) >= 2
    /\ \E i \in 1..Len(zone) :
          /\ zone[i].id = Last(lastUnit.calls).id
          /\ zone[i].target = Unwrap(lastUnit.instance).ipv4[1]

\* The substring after the last '-' of a name (the whole name without one).
Suffix(name) ==
    LET dashes == {i \in 1..Len(name) : name[i] = "-"}
    IN  IF dashes = {} THEN name ELSE SubSeq(name, Max(dashes) + 1, Len(name))
SuffixNumbers(records, pre) ==
    {Unwrap(ParseI32(Suffix(records[i].name))) :
        i \in {j \in MatchingAt(records, pre) : IsSome(ParseI32(Suffix(records[j].name)))}}
NextSlot(records, pre) ==
    IF SuffixNumbers(records, pre) = {} THEN 1
    ELSE 1 + Max(SuffixNumbers(records, pre))

\* C4: in DnsBind, if no A record with the prefix is down, exactly one A
\* record is created, named <prefix>-<n> and pointing at the new instance's
\* first public address, n being one plus the largest parseable suffix of
\* the matching A records, or 1 without any.
C4_CreatesNextSlot ==
    [][\A p \in Procs :
          (LeavesDnsBind(p) /\ DownAt(loc[p].records, prefix(p)) = {}) =>
              LET ip   == Unwrap(loc[p].instance).ipv4[1]
                  name == Dash(prefix(p), ToDec(NextSlot(loc[p].records, prefix(p))))
                  call == Last(LogAfter(p))
              IN  /\ Len(LogAfter(p)) = Len(calls[p]) + 1
                  /\ call.op = "create_a_record"
                  /\ call.name = name
                  /\ call.target = ip
                  /\ NoCall(LogAfter(p), "update_record_target")
                  /\ call.out = "ok" =>
                        /\ Len(zone') = Len(zone) + 1
                        /\ SubSeq(zone', 1, Len(zone)) = zone
                        /\ Last(zone').record_type = A_RECORD
                        /\ Last(zone').name = name
                        /\ Last(zone').target = ip
                  /\ call.out # "ok" => zone' = zone]_vars

\* Slots 1 and 3 were bound and slot 4 was created.
C4_Witness ==
    /\ lastUnit.kind = "up" /\ lastUnit.result = "ok" /\ Clean(lastUnit)
    /\ Last(lastUnit.calls).op = "create_a_record"
    /\ Last(lastUnit.calls).name = SlotName(4)
    /\ SlotNumbers(lastUnit.pre.zone, TRUE) = <<1, 3>>
    /\ Last(zone).name = SlotName(4)

\* The last dot-separated part of the address before the '/', as a u8.
LastOctet(ipam) ==
    LET address == Split(ipam, "/")[1]
        dots    == {i \in 1..Len(address) : address[i] = "."}
    IN  IF dots = {} THEN ParseU8(address)
        ELSE ParseU8(SubSeq(address, Max(dots) + 1, Len(address)))
GroupOctets(l) ==
    {Unwrap(LastOctet(GroupAddresses(l)[i])) :
        i \in {j \in 1..Len(GroupAddresses(l)) : IsSome(LastOctet(GroupAddresses(l)[j]))}}
NextOctet(l) == IF GroupOctets(l) = {} THEN 1 ELSE 1 + Max(GroupOctets(l))

\* C5: the host octet that scale_up_one attaches is one plus the largest last
\* octet of the private addresses of the interfaces labelled with the tag,
\* over all configurations of all inventoried instances, and 1 without any.
C5_AttachesNextOctet ==
    [][\A p \in Procs :
          (pc[p] = "NetworkAttach" /\ pc'[p] # "NetworkAttach") =>
              /\ Len(LogAfter(p)) = Len(calls[p]) + 1
              /\ Last(LogAfter(p)).op = "set_interfaces"
              /\ Last(LogAfter(p)).name = VlanAddress(NextOctet(start[p].linodes))]_vars
\* The last two units were a scale-up and then a scale-down, each returning
\* Ok with every provider call answered with success.
PairDone ==
    /\ prevUnit.kind = "up" /\ prevUnit.result = "ok" /\ Clean(prevUnit)
    /\ lastUnit.kind = "down" /\ lastUnit.result = "ok" /\ Clean(lastUnit)
    /\ lastUnit.pre = prevUnit.post
\* The id of the record a scale-up unit bound: the one it updated, or the one
\* its create call added.
SlotOf(unit) ==
    LET call == Last(unit.calls)
        old  == {unit.pre.zone[i].id : i \in 1..Len(unit.pre.zone)}
        new  == {i \in 1..Len(unit.post.zone) :
                    /\ unit.post.zone[i].id \notin old
                    /\ unit.post.zone[i].name = call.name}
    IN  IF call.op = "update_record_target" THEN call.id
        ELSE unit.post.zone[Min(new)].id
RoundTrip ==
    /\ \E i \in 1..Len(lastUnit.post.zone) :
          /\ lastUnit.post.zone[i].id = SlotOf(prevUnit)
          /\ lastUnit.post.zone[i].target = LOCALHOST
    /\ Len(InventoryOf(lastUnit.post)) = Len(InventoryOf(prevUnit.pre))
\* No record of the zone points at the first public address of an instance
\* of the group, the one the unit creates included.
NoneTargeted(unit) ==
    LET ips == {InventoryOf(unit.pre)[i].ipv4[1] : i \in 1..Len(InventoryOf(unit.pre))}
                   \cup {Unwrap(unit.instance).ipv4[1]}
    IN  \A j \in 1..Len(unit.pre.zone) : unit.pre.zone[j].target \notin ips

DownSteps == {"DownInventory", "DownRecords", "RecordMatch", "DownUpdate", "DownDestroy"}
\* No inventoried instance has a first public address that a record targets.
NoMatch(w) ==
    \A i \in 1..Len(InventoryOf(w)) : \A j \in 1..Len(w.zone) :
        w.zone[j].target # InventoryOf(w)[i].ipv4[1]

\* C7: a scale_down_one that finds no inventoried instance whose first public
\* address is the target of a record (an empty inventory included) changes
\* nothing, issues neither an update nor a destroy, and returns Ok once its
\* two listings are answered; so does every repetition.
C7_NoMatchIsNoOp ==
    /\ \A p \in Procs :
          (pc[p] \in DownSteps /\ NoMatch(start[p])) =>
              /\ linodes = start[p].linodes
              /\ zone = start[p].zone
              /\ pc[p] \notin {"DownUpdate", "DownDestroy"}
    /\ (lastUnit.kind = "down" /\ NoMatch(lastUnit.pre)) =>
          /\ lastUnit.post = lastUnit.pre
          /\ NoCall(lastUnit.calls, "update_record_target")
          /\ NoCall(lastUnit.calls, "destroy_instance")
          /\ Clean(lastUnit) => lastUnit.result = "ok"

\* Two scale-downs in a row found a live instance, records, and no match.
C7_Witness ==
    /\ prevUnit.kind = "down" /\ prevUnit.result = "ok" /\ NoMatch(prevUnit.pre)
    /\ lastUnit.kind = "down" /\ lastUnit.result = "ok" /\ NoMatch(lastUnit.pre)
    /\ InventoryOf(lastUnit.pre) # <<>> /\ lastUnit.pre.zone # <<>>
    /\ linodes = init0.linodes /\ zone = init0.zone

Failed(call) == call.out \in {"neterr", "httperr"}

\* C8: when a provider call of a unit fails, the unit returns an error and
\* issues no later call: a failed call is the last of its unit, and the unit
\* ended with an error.
C8_FailureAborts ==
    /\ \A p \in Procs : \A i \in 1..Len(calls[p]) : ~Failed(calls[p][i])
    /\ \A i \in 1..Len(lastUnit.calls) :
          Failed(lastUnit.calls[i]) =>
              i = Len(lastUnit.calls) /\ lastUnit.result = "err"

Live(id) == \E i \in 1..Len(linodes) : linodes[i].id = id

\* C9: the units of a batch run one after another; once a unit fails no later
\* unit is started and the command ends with an error, and what the earlier
\* units did stays: the instances they created are live, the instances they
\* destroyed are gone.
C9_BatchStopsAtFailure ==
    \A p \in Procs :
        /\ k[p] <= begun[p] /\ begun[p] <= k[p] + 1 /\ begun[p] <= args[p].n
        /\ Running(p) => begun[p] = k[p] + 1
        /\ pc[p] = "main" => begun[p] = k[p]
        /\ pc[p] = "exit" =>
              /\ exit[p].status = 0 <=> begun[p] = k[p]
              /\ exit[p].status # 0 =>
                    /\ lastUnit.proc = p /\ lastUnit.result # "ok"
                    /\ exit[p].stderr # ""
                    /\ args[p].action = "up" =>
                          /\ Len(kept[p]) = k[p]
                          /\ \A i \in 1..Len(kept[p]) : Live(kept[p][i])
                    /\ args[p].action = "down" =>
                          \A i \in 1..Len(kept[p]) : ~Live(kept[p][i])

\* The second of two units failed after the first had created its instance.
C9_Witness ==
    /\ pc[1] = "exit" /\ exit[1].status = 1
    /\ args[1].action = "up" /\ args[1].n = 2
    /\ k[1] = 1 /\ begun[1] = 2 /\ Len(kept[1]) = 1 /\ Live(kept[1][1])

\* C10: with a --region that is no key of the region table the command ends
\* with a diagnostic and a failure exit status, no unit having started.
C10_UnknownRegionFails ==
    \A p \in Procs :
        (pc[p] = "exit" /\ ~IsSome(REGIONS_get(args[p].region))) =>
            /\ exit[p].stderr # ""
            /\ exit[p].status # 0
            /\ begun[p] = 0

\* The host octets of the set_interfaces calls of a call log.
AttachedOctets(log) ==
    {LastOctet(log[i].name) : i \in {j \in 1..Len(log) : log[j].op = "set_interfaces"}}

\* C11: the host octet that scale_up_one computes and attaches to the new
\* instance lies in 1..254, whatever the interfaces of the inventory.
C11_OctetInRange ==
    \A o \in AttachedOctets(lastUnit.calls) \cup UNION {AttachedOctets(calls[p]) : p \in Procs} :
        IsSome(o) /\ Unwrap(o) \in 1..(U8Max - 1)

\* C12: no private address of a tagged interface, however malformed, ends
\* the unit: once the configurations of an inventoried instance are answered,
\* the unit goes on to the next instance or to Provision.
C12_AllocationNeverFails ==
    [][\A p \in Procs :
          (pc[p] = "AddressCompute" /\ pc'[p] # pc[p] /\ Last(LogAfter(p)).out = "ok") =>
              pc'[p] = "Provision"]_vars

\* The last two units were a scale-down that matched an instance and then a
\* scale-up, each returning Ok.
DownThenUp ==
    /\ prevUnit.kind = "down" /\ prevUnit.result = "ok"
    /\ ~NoCall(prevUnit.calls, "destroy_instance")
    /\ lastUnit.kind = "up" /\ lastUnit.result = "ok"
    /\ lastUnit.pre = prevUnit.post
\* The largest inventory of the group seen so far: at the start, around the
\* last two units, and now.
PeakLive ==
    Max({Len(InventoryOf(w)) : w \in {init0, prevUnit.pre, prevUnit.post,
                                       lastUnit.pre, lastUnit.post,
                                       [linodes |-> linodes, zone |-> zone]}})

\* C13: a scale_down_one that matched an instance, followed by a
\* scale_up_one, binds the new instance to an existing down record instead
\* of creating a name, so the zone has as many records after the pair as
\* before; and in failure-free runs from a zone without records of the
\* group, the slot records of the group never outnumber the peak number of
\* simultaneously live instances of the group.
C13_SlotReuse ==
    /\ DownThenUp =>
          /\ Last(lastUnit.calls).op = "update_record_target"
          /\ NoCall(lastUnit.calls, "create_a_record")
          /\ Len(lastUnit.post.zone) = Len(prevUnit.pre.zone)
    /\ (faults = 0 /\ MatchingAt(init0.zone, Dash(TagWeb, CodeUsIad)) = {}) =>
          Len(SlotNumbers(zone, FALSE)) <= PeakLive

CallsOf(log, op) == SelectSeq(log, LAMBDA c : c.op = op)
\* The inventoried instances of w whose first public address is the target
\* of a record of w, by their place in the inventory.
Matched(w) ==
    {i \in 1..Len(InventoryOf(w)) :
        \E j \in 1..Len(w.zone) : w.zone[j].target = InventoryOf(w)[i].ipv4[1]}

\* C14: one scale_down_one unit repoints at most one record and destroys at
\* most one instance: the first inventoried instance whose first public
\* address is the target of a record; the record repointed to 127.0.0.1 is
\* one that targeted that address, the instance destroyed is that same
\* instance, and every other instance and record is left as it was.
C14_DownHandlesFirstMatch ==
    lastUnit.kind = "down" =>
        LET pre     == lastUnit.pre
            post    == lastUnit.post
            updates == CallsOf(lastUnit.calls, "update_record_target")
            deletes == CallsOf(lastUnit.calls, "destroy_instance")
            first   == InventoryOf(pre)[Min(Matched(pre))]
        IN  /\ Len(updates) <= 1 /\ Len(deletes) <= Len(updates)
            /\ Matched(pre) = {} => updates = <<>>
            /\ updates # <<>> =>
                  /\ updates[1].target = LOCALHOST
                  /\ \E j \in 1..Len(pre.zone) :
                        /\ pre.zone[j].id = updates[1].id
                        /\ pre.zone[j].target = first.ipv4[1]
                  /\ Len(post.zone) = Len(pre.zone)
                  /\ \A j \in 1..Len(pre.zone) :
                        post.zone[j] =
                            IF pre.zone[j].id = updates[1].id /\ updates[1].out = "ok"
                            THEN [pre.zone[j] EXCEPT !.target = LOCALHOST]
                            ELSE pre.zone[j]
            /\ deletes # <<>> =>
                  /\ deletes[1].id = first.id
                  /\ deletes[1].out = "ok" =>
                        post.linodes = SelectSeq(pre.linodes, LAMBDA i : i.id # first.id)
            /\ (deletes = <<>> \/ deletes[1].out # "ok") => post.linodes = pre.linodes
            /\ (Matched(pre) # {} /\ lastUnit.result = "ok") => deletes # <<>>

\* A scale-down found two matching instances and removed the first only.
C14_Witness ==
    /\ lastUnit.kind = "down" /\ lastUnit.result = "ok" /\ Clean(lastUnit)
    /\ Cardinality(Matched(lastUnit.pre)) >= 2
    /\ Len(InventoryOf(lastUnit.post)) = Len(InventoryOf(lastUnit.pre)) - 1
    /\ InventoryOf(lastUnit.post)[1].id # InventoryOf(lastUnit.pre)[1].id

\* The places of the listing l whose instance has both tags in its tag list.
Tagged(l, tag, code) ==
    {i \in 1..Len(l) : {tag, code} \subseteq Range(l[i].tags)}
\* The n-th smallest element of a set of numbers.
Nth(S, n) == CHOOSE i \in S : Cardinality({m \in S : m <= i}) = n
TakesInventory(p) ==
    /\ pc[p] \in {"Inventory", "DownInventory"} /\ pc'[p] # pc[p]
    /\ Last(LogAfter(p)).out = "ok"

\* C15: the inventory a unit works on holds exactly the instances of the
\* listing whose tag list contains both the tag and the region code, compared
\* exactly, in the order of the listing; an instance that the preceding
\* scale_up_one created is among them.
C15_InventoryFilter ==
    [][\A p \in Procs :
          TakesInventory(p) =>
              LET at        == Tagged(linodes, args[p].tag, region_info(p).code)
                  instances == loc'[p].instances
              IN  /\ Len(instances) = Cardinality(at)
                  /\ \A n \in 1..Len(instances) : instances[n] = linodes[Nth(at, n)]
                  /\ (/\ lastUnit.kind = "up" /\ IsSome(lastUnit.instance)
                      /\ start[p].linodes = lastUnit.post.linodes) =>
                        \E n \in 1..Len(instances) :
                            /\ instances[n].id = Unwrap(lastUnit.instance).id
                            /\ instances[n].tags = <<args[p].tag, region_info(p).code>>]_vars

\* A unit took its inventory from a listing with an instance whose tag
\* differs in case only, and found there the instance the scale-up before it
\* had created, after an older one listed with its tags in another order.
C15_Witness ==
    /\ init0 = WorldShared
    /\ pc[1] \in {"AddressCompute", "DownRecords"}
    /\ lastUnit.kind = "up" /\ IsSome(lastUnit.instance)
    /\ Len(loc[1].instances) = 2 /\ Len(linodes) = 3
    /\ loc[1].instances[1].tags = <<CodeUsIad, TagDb, TagWeb>>
    /\ loc[1].instances[2].id = Unwrap(lastUnit.instance).id

\* The provider calls of a scale-up unit over the inventory `instances`, in
\* the order of the state machine; the last one is an update or a create.
UpCalls(instances) ==
    <<{"fetch_instances"}>>
    \o [i \in 1..Len(instances) |-> {"get_instance_configurations"}]
    \o <<{"create_linode_instance"}, {"get_instance_configurations"},
         {"set_interfaces"}, {"reboot_instance"}, {"fetch_records"},
         {"update_record_target", "create_a_record"}>>
\* The log is a beginning of that order, each configuration fetch naming its
\* inventoried instance and the calls after Provision the new instance.
InUpOrder(log, instances, new) ==
    /\ Len(log) <= Len(UpCalls(instances))
    /\ \A i \in 1..Len(log) :
          /\ log[i].op \in UpCalls(instances)[i]
          /\ (1 < i /\ i <= 1 + Len(instances)) => log[i].id = instances[i - 1].id
          /\ (i \in (Len(instances) + 3)..(Len(instances) + 5)) =>
                IsSome(new) /\ log[i].id = Unwrap(new).id

\* C16: a scale_up_one unit issues its provider calls in the one order
\* Inventory, AddressCompute (each inventoried instance in turn), Provision,
\* AwaitConfig, NetworkAttach, Reboot, DnsBind (fetch, then one update or one
\* create), none twice; a successful unit issues them all; the zone is as the
\* unit found it until the reboot call has returned.
C16_UpCallOrder ==
    /\ \A p \in Procs :
          (Running(p) /\ args[p].action = "up") =>
              /\ InUpOrder(calls[p], InventoryOf(start[p]), loc[p].instance)
              /\ zone = start[p].zone
              /\ pc[p] = "Reboot" => Last(calls[p]).op = "set_interfaces"
              /\ pc[p] = "DnsFetch" => Last(calls[p]).op = "reboot_instance"
    /\ lastUnit.kind = "up" =>
          /\ InUpOrder(lastUnit.calls, InventoryOf(lastUnit.pre), lastUnit.instance)
          /\ NoCall(lastUnit.calls, "reboot_instance") =>
                lastUnit.post.zone = lastUnit.pre.zone
          /\ lastUnit.result = "ok" =>
                Len(lastUnit.calls) = Len(UpCalls(InventoryOf(lastUnit.pre)))

\* A scale-up over an inventory of two instances returned Ok.
C16_Witness ==
    /\ lastUnit.kind = "up" /\ lastUnit.result = "ok" /\ Clean(lastUnit)
    /\ Len(InventoryOf(lastUnit.pre)) = 2
    /\ Len(lastUnit.calls) = 9

\* The last unit was a scale-up that failed after it had created its instance.
FailedAfterProvision ==
    /\ lastUnit.kind = "up" /\ lastUnit.result \in {"err", "panic"}
    /\ IsSome(lastUnit.instance)

\* C17: a scale_up_one that fails after it created its instance issues no
\* destroy: the instance stays live, appended to the listing and tagged with
\* the tag and the region code, so it is in the inventory of the group, and
\* the unit has bound no record to it: the zone is as the unit found it.
C17_NoCompensation ==
    FailedAfterProvision =>
        LET new == Unwrap(lastUnit.instance)
            pre == lastUnit.pre
            post == lastUnit.post
        IN  /\ NoCall(lastUnit.calls, "destroy_instance")
            /\ Len(post.linodes) = Len(pre.linodes) + 1
            /\ SubSeq(post.linodes, 1, Len(pre.linodes)) = pre.linodes
            /\ Last(post.linodes).id = new.id
            /\ Last(post.linodes).tags = <<TagWeb, CodeUsIad>>
            /\ \E i \in 1..Len(InventoryOf(post)) : InventoryOf(post)[i].id = new.id
            /\ Live(new.id)
            /\ post.zone = pre.zone

\* The reboot of a new instance failed; the instance is live with its VLAN
\* interface attached and no record points at it.
C17_Witness ==
    /\ FailedAfterProvision
    /\ Last(lastUnit.calls).op = "reboot_instance"
    /\ Live(Unwrap(lastUnit.instance).id)
    /\ TaggedAddresses(Last(linodes), TagWeb) # <<>>
    /\ \A j \in 1..Len(zone) : zone[j].target # Unwrap(lastUnit.instance).ipv4[1]

\* The instance of listing l with the id of `instance`.
Listed(l, instance) == l[CHOOSE i \in 1..Len(l) : l[i].id = instance.id]
\* The last two units were scale-ups of the two processes, both returning Ok.
BothUp ==
    /\ prevUnit.kind = "up" /\ prevUnit.result = "ok"
    /\ lastUnit.kind = "up" /\ lastUnit.result = "ok"
    /\ prevUnit.proc # lastUnit.proc
SameOctet ==
    /\ BothUp
    /\ Live(Unwrap(prevUnit.instance).id) /\ Live(Unwrap(lastUnit.instance).id)
    /\ TaggedAddresses(Listed(linodes, Unwrap(prevUnit.instance)), TagWeb) # <<>>
    /\ TaggedAddresses(Listed(linodes, Unwrap(prevUnit.instance)), TagWeb)
         = TaggedAddresses(Listed(linodes, Unwrap(lastUnit.instance)), TagWeb)
SameClaim ==
    /\ BothUp
    /\ Last(prevUnit.calls).op = "update_record_target"
    /\ Last(lastUnit.calls).op = "update_record_target"
    /\ Last(prevUnit.calls).id = Last(lastUnit.calls).id
SameName ==
    /\ BothUp
    /\ Last(prevUnit.calls).op = "create_a_record"
    /\ Last(lastUnit.calls).op = "create_a_record"
    /\ Last(prevUnit.calls).name = Last(lastUnit.calls).name
    /\ Cardinality({i \in 1..Len(zone) : zone[i].name = Last(lastUnit.calls).name}) >= 2

\* C18: when two scale_up_one units on the same tag and region interleave,
\* no step detects a duplicate. Each unit attaches the octet after the
\* largest one of its own scan, whatever the other instances hold by then;
\* each claims the first down record of the list it fetched, whatever that
\* record targets by then, or creates the name after the largest number of
\* that list, whatever names the zone has by then; and each returns Ok.
C18_DuplicatesUndetected ==
    [][\A p \in Procs :
          /\ (pc[p] = "NetworkAttach" /\ pc'[p] # pc[p]) =>
                LET cidr == IF loc[p].cidrs = <<>> THEN 1
                            ELSE 1 + Max(Range(loc[p].cidrs))
                    new == Unwrap(loc[p].instance)
                IN  /\ pc'[p] = "Reboot"
                    /\ Last(calls'[p]).op = "set_interfaces"
                    /\ Last(calls'[p]).name = VlanAddress(cidr)
                    /\ TaggedAddresses(Listed(linodes', new), TagWeb)
                         = <<VlanAddress(cidr)>>
          /\ LeavesDnsBind(p) =>
                LET records == loc[p].records
                    ip == Unwrap(loc[p].instance).ipv4[1]
                    call == Last(lastUnit'.calls)
                IN  /\ lastUnit'.proc = p /\ lastUnit'.result = "ok"
                    /\ call.target = ip
                    /\ IF DownAt(records, prefix(p)) # {}
                       THEN /\ call.op = "update_record_target"
                            /\ call.id = records[Min(DownAt(records, prefix(p)))].id
                            /\ \E i \in 1..Len(zone') :
                                  zone'[i].id = call.id /\ zone'[i].target = ip
                       ELSE /\ call.op = "create_a_record"
                            /\ call.name = Dash(prefix(p), ToDec(NextSlot(records, prefix(p))))
                            /\ Len(zone') = Len(zone) + 1
                            /\ Last(zone').name = call.name
                            /\ Last(zone').target = ip]_vars

\* Two interleaved scale-ups left two live instances on the same VLAN
\* address, bound to the same down record or to two records of the same name.
C18_Witness == SameOctet /\ (SameClaim \/ SameName)

\* The call log of a scale-up over the listing l respects the top of the
\* octet range.
TopRespected(log, l) ==
    /\ (GroupOctets(l) # {} /\ Max(GroupOctets(l)) = U8Max - 1) =>
          AttachedOctets(log) \subseteq {Some(U8Max)}
    /\ (GroupOctets(l) # {} /\ Max(GroupOctets(l)) = U8Max) =>
          AttachedOctets(log) = {}

\* C19: when the largest parsed octet of the group is 254, scale_up_one
\* attaches 10.0.0.255/24; when it is 255, the increment is not wrapped
\* modulo 256: no address is attached for a wrapped octet.
C19_NoSilentWrap ==
    /\ \A p \in Procs :
          (Running(p) /\ args[p].action = "up") =>
              TopRespected(calls[p], start[p].linodes)
    /\ lastUnit.kind = "up" => TopRespected(lastUnit.calls, lastUnit.pre.linodes)

\* A step of p in which the new instance reported no configuration.
NoConfigs(p) ==
    /\ pc[p] = "AwaitConfig" /\ pc'[p] # pc[p]
    /\ Last(LogAfter(p)).out = "noconfigs"

\* C20: when the new instance reports no configuration in AwaitConfig, the
\* unit ends there fatally: its last call is that fetch, it has issued no
\* interface set, no reboot and no record update or create, the provider
\* state is as before the step, and the command exits with a failure status
\* without counting the unit; from there the process only ever starts a new
\* command, so the remaining units of the batch are not run.
C20_NoConfigIsFatal ==
    [][\A p \in Procs :
          /\ NoConfigs(p) =>
                /\ pc'[p] = "exit" /\ exit'[p].status # 0
                /\ lastUnit'.proc = p /\ lastUnit'.result = "panic"
                /\ Last(lastUnit'.calls).op = "get_instance_configurations"
                /\ \A op \in {"set_interfaces", "reboot_instance", "fetch_records",
                               "update_record_target", "create_a_record"} :
                      NoCall(lastUnit'.calls, op)
                /\ linodes' = linodes /\ zone' = zone
                /\ k'[p] = k[p] /\ begun'[p] = begun[p]
          /\ (pc[p] = "exit" /\ pc'[p] # "exit") =>
                pc'[p] = "main" /\ begun'[p] = 0 /\ k'[p] = 0]_vars

\* The first of two units asked for ended on an instance without
\* configuration: the command exited with the second unit not begun.
C20_Witness ==
    /\ pc[1] = "exit" /\ exit[1].status # 0
    /\ lastUnit.proc = 1 /\ lastUnit.result = "panic"
    /\ Last(lastUnit.calls).out = "noconfigs"
    /\ args[1].n = 2 /\ begun[1] = 1 /\ k[1] = 0
    /\ Live(Unwrap(lastUnit.instance).id)

\* The records the zone had at the start, by place: no record is ever
\* deleted, and new ones are appended.
Kept(i) == zone[i] = init0.zone[i]

\* C21: no scale unit changes the target of a record whose type is not A:
\* every record of another type is as it was at the start.
C21_OnlyARecordsChange ==
    \A i \in 1..Len(init0.zone) :
        init0.zone[i].record_type # A_RECORD => Kept(i)

\* C22: a scale unit of the group changes only records of the slot sequence
\* of the group, named exactly <tag>-<region-code>-<n>: every other record
\* of the zone is as it was at the start.
C22_OnlySlotRecordsChange ==
    \A i \in 1..Len(init0.zone) :
        ~IsSome(SlotNumber(init0.zone[i].name)) => Kept(i)

\* The instances of the listing before the unit that the listing after it
\* no longer has.
Destroyed(unit) ==
    {unit.pre.linodes[i] : i \in {j \in 1..Len(unit.pre.linodes) :
        \A m \in 1..Len(unit.post.linodes) :
            unit.post.linodes[m].id # unit.pre.linodes[j].id}}

\* C23: scale_down_one leaves no dangling binding: when a unit has destroyed
\* an instance, no record of the zone it leaves has the first public address
\* of that instance as its target, whatever the provider answered.
C23_NoDanglingBinding ==
    lastUnit.kind = "down" =>
        \A instance \in Destroyed(lastUnit) :
            \A j \in 1..Len(lastUnit.post.zone) :
                lastUnit.post.zone[j].target # instance.ipv4[1]

\* C24: in a group that started empty, so that every instance of it was
\* created by a scale_up_one unit, each scale_down_one that returns Ok on a
\* non-empty inventory reduces the inventory by exactly one.
C24_DownMakesProgress ==
    (/\ InventoryOf(init0) = <<>>
     /\ lastUnit.kind = "down" /\ lastUnit.result = "ok"
     /\ InventoryOf(lastUnit.pre) # <<>>) =>
        Len(InventoryOf(lastUnit.post)) = Len(InventoryOf(lastUnit.pre)) - 1
====
